---- MODULE Spec2Model ----
(***************************************************************************)
(* Model of the lab-report pipeline of pdf-lab-results-analysis:           *)
(*   - extract_table_data_scan (initial_pdf_processing.py), the line       *)
(*     oriented parser of "Scan" documents, one action per loop step;      *)
(*   - main (initial_pdf_processing.py), the per-document loop and the     *)
(*     combining stage;                                                    *)
(*   - the reconciliation script (labcorp_pdf_processing.py).              *)
(* Text is modelled as it is in Python: a string is a sequence of one      *)
(* character strings, so startswith, substring tests, the date regular     *)
(* expression and string ordering are computed on the characters.          *)
(***************************************************************************)
EXTENDS Integers, Sequences, FiniteSets, TLC

VARIABLES scan, run, recon

vars == <<scan, run, recon>>

(***************************************************************************)
(* Characters and strings                                                  *)
(***************************************************************************)

\* The characters in code-point order: the line feed (written "NL"), the
\* printable ASCII characters (the quote, the backslash and the grave accent,
\* which no text of the model holds, are left out), then the en dash.
Ascii ==
  <<"NL"," ","!","#","$","%","&","'","(",")","*","+",",","-",".","/",
    "0","1","2","3","4","5","6","7","8","9",":",";","<","=",">","?","@",
    "A","B","C","D","E","F","G","H","I","J","K","L","M","N","O","P","Q",
    "R","S","T","U","V","W","X","Y","Z","[","]","^","_",
    "a","b","c","d","e","f","g","h","i","j","k","l","m","n","o","p","q",
    "r","s","t","u","v","w","x","y","z","{","|","}","~","EN_DASH">>

CharSet == {Ascii[k] : k \in 1..Len(Ascii)}

\* Python's ordering of characters (by code point), as a rank.
OrdOf == [c \in CharSet |-> CHOOSE k \in 1..Len(Ascii) : Ascii[k] = c]

Digits == {"0","1","2","3","4","5","6","7","8","9"}

UpperLetters == <<"A","B","C","D","E","F","G","H","I","J","K","L","M",
                  "N","O","P","Q","R","S","T","U","V","W","X","Y","Z">>

LowerLetters == <<"a","b","c","d","e","f","g","h","i","j","k","l","m",
                  "n","o","p","q","r","s","t","u","v","w","x","y","z">>

LetterIndex == 1..Len(UpperLetters)

\* str.lower() and str.upper() on one character.
LowerOf ==
  [c \in CharSet |->
     IF \E k \in LetterIndex : UpperLetters[k] = c
       THEN LowerLetters[CHOOSE k \in LetterIndex : UpperLetters[k] = c]
       ELSE c]

UpperOf ==
  [c \in CharSet |->
     IF \E k \in LetterIndex : LowerLetters[k] = c
       THEN UpperLetters[CHOOSE k \in LetterIndex : LowerLetters[k] = c]
       ELSE c]

StrLower(s) == [k \in 1..Len(s) |-> LowerOf[s[k]]]

StrUpper(s) == [k \in 1..Len(s) |-> UpperOf[s[k]]]

\* \s of the regular expressions and the characters str.strip() removes.
IsSpace(c) == c \in {" ", "NL"}

IsDigit(c) == c \in Digits

\* any(c.isdigit() for c in line)
AnyDigit(s) == \E k \in 1..Len(s) : IsDigit(s[k])

\* s.startswith(p)
StartsWith(s, p) == Len(s) >= Len(p) /\ SubSeq(s, 1, Len(p)) = p

\* p occurs in s at position k
OccursAt(s, p, k) == k + Len(p) - 1 <= Len(s) /\ SubSeq(s, k, k + Len(p) - 1) = p

\* p in s
Contains(s, p) == \E k \in 1..(Len(s) - Len(p) + 1) : OccursAt(s, p, k)

RECURSIVE LStrip(_)
LStrip(s) == IF s # <<>> /\ IsSpace(Head(s)) THEN LStrip(Tail(s)) ELSE s

RECURSIVE RStrip(_)
RStrip(s) ==
  IF s # <<>> /\ IsSpace(s[Len(s)]) THEN RStrip(SubSeq(s, 1, Len(s) - 1)) ELSE s

\* s.strip()
Strip(s) == RStrip(LStrip(s))

\* s.replace(p, "") for a non-empty p: every occurrence is removed, left to right.
RECURSIVE RemoveAll(_, _)
RemoveAll(s, p) ==
  IF s = <<>> THEN <<>>
  ELSE IF OccursAt(s, p, 1) THEN RemoveAll(SubSeq(s, Len(p) + 1, Len(s)), p)
  ELSE <<Head(s)>> \o RemoveAll(Tail(s), p)

\* Python's s < t on strings.
RECURSIVE StrLess(_, _)
StrLess(s, t) ==
  IF t = <<>> THEN FALSE
  ELSE IF s = <<>> THEN TRUE
  ELSE IF Head(s) = Head(t) THEN StrLess(Tail(s), Tail(t))
  ELSE OrdOf[Head(s)] < OrdOf[Head(t)]

\* sorted(list(S)) for a set S of strings.
RECURSIVE SortedStrings(_)
SortedStrings(S) ==
  IF S = {} THEN <<>>
  ELSE LET m == CHOOSE x \in S : \A y \in S \ {x} : StrLess(x, y)
       IN  <<m>> \o SortedStrings(S \ {m})

\* A call: the argument is evaluated, then F is applied to its value.
Call(F(_), x) == CHOOSE y \in {F(v) : v \in {x}} : TRUE

\* Python's None, kept apart from every string (no string holds this element).
None == <<"NONE">>

\* The empty string "".
Empty == <<>>

\* Truthiness of a value that is None or a string.
Truthy(v) == v # None /\ v # Empty

(***************************************************************************)
(* The date pattern of extract_table_data_scan                             *)
(***************************************************************************)

MonthNames ==
  { <<"J","a","n">>, <<"F","e","b">>, <<"M","a","r">>, <<"A","p","r">>,
    <<"M","a","y">>, <<"J","u","n">>, <<"J","u","l">>, <<"A","u","g">>,
    <<"S","e","p">>, <<"O","c","t">>, <<"N","o","v">>, <<"D","e","c">> }

\* The first position at or after k that holds no white space.
RECURSIVE SkipSpace(_, _)
SkipSpace(s, k) == IF k <= Len(s) /\ IsSpace(s[k]) THEN SkipSpace(s, k + 1) ELSE k

DigitAt(s, k) == k <= Len(s) /\ IsDigit(s[k])

\* ",\s+\d{4}" matches at k
CommaYearAt(s, k) ==
  /\ k <= Len(s) /\ s[k] = ","
  /\ LET y == SkipSpace(s, k + 1)
     IN  /\ y > k + 1
         /\ DigitAt(s, y) /\ DigitAt(s, y + 1) /\ DigitAt(s, y + 2) /\ DigitAt(s, y + 3)

\* "(?:Jan|...|Dec)\s+\d{1,2},\s+\d{4}" matches at k
DateAt(s, k) ==
  /\ k + 2 <= Len(s)
  /\ SubSeq(s, k, k + 2) \in MonthNames
  /\ LET d == SkipSpace(s, k + 3)
     IN  /\ d > k + 3
         /\ DigitAt(s, d)
         /\ \/ CommaYearAt(s, d + 1)
            \/ DigitAt(s, d + 1) /\ CommaYearAt(s, d + 2)

\* date_pattern.search(line)
DateSearch(s) == \E k \in 1..Len(s) : DateAt(s, k)

(***************************************************************************)
(* Texts of the documents                                                  *)
(***************************************************************************)

\* "Component"
ComponentMarker == <<"C","o","m","p","o","n","e","n","t">>

\* "Normal Range:"
RangeMarker == <<"N","o","r","m","a","l"," ","R","a","n","g","e",":">>

\* "m2"
UnitM2 == <<"m","2">>

\* "CO2"
TokenCO2 == <<"C","O","2">>

\* "Jan 3, 2025"
Jan3 == <<"J","a","n"," ","3",","," ","2","0","2","5">>

\* "Mar 6, 2025"
Mar6 == <<"M","a","r"," ","6",","," ","2","0","2","5">>

\* "Na"
LabelNa == <<"N","a">>

\* "K"
LabelK == <<"K">>

\* "140"
Value140 == <<"1","4","0">>

\* "21"
Value21 == <<"2","1">>

\* "31 mmol/L"
Value31 == <<"3","1"," ","m","m","o","l","/","L">>

\* "Normal Range: 21 -"
RangeLine21 == <<"N","o","r","m","a","l"," ","R","a","n","g","e",":"," ","2","1"," ","-">>

\* "21 -"
RangeText21 == <<"2","1"," ","-">>

\* "21 - 31 mmol/L"
RangeText21to31 == <<"2","1"," ","-"," ","3","1"," ","m","m","o","l","/","L">>

\* "=" * 80, the line extract_text_from_pdf puts after every page.
PageSeparator == [k \in 1..80 |-> "="]

(***************************************************************************)
(* extract_table_data_scan                                                 *)
(***************************************************************************)

\* all elements of a sequence
Range(f) == {f[k] : k \in DOMAIN f}

\* The result when no frame is returned (Python's None for df).
NoFrame == [none |-> TRUE, columns |-> <<>>, rows |-> <<>>]

\* "Test" and "Reference Range", the fixed column names.
ColTest == <<"T","e","s","t">>

ColRef == <<"R","e","f","e","r","e","n","c","e"," ","R","a","n","g","e">>

\* current_values padded with "" up to the number of date headers.
Pad(values, n) ==
  values \o [k \in 1..(IF n > Len(values) THEN n - Len(values) ELSE 0) |-> Empty]

\* The "save the previous component's data" block: the row of the current
\* test is appended when the test has a name and at least one value, and the
\* values and the range are reset.
Flush(s) ==
  IF s.current_component # None /\ Len(s.current_values) > 0
    THEN [s EXCEPT
            !.data_rows = Append(@, <<s.current_component>>
                                      \o Pad(s.current_values, Len(s.date_headers))
                                      \o <<s.current_range>>),
            !.current_values = <<>>,
            !.current_range = None]
    ELSE s

\* The flush followed by "start processing the new component".
NewComponent(s, line) ==
  [Flush(s) EXCEPT !.current_component = line,
                   !.current_values = <<>>,
                   !.current_range = None,
                   !.i = s.i + 1]

\* The inner loop of CASE 4: the lines after a "Normal Range:" line are added
\* to the range text until a Component line or a line with a digit (other
\* than "m2") is met; the result is the index of the last line absorbed and
\* the text.
RECURSIVE AbsorbRange(_, _, _)
AbsorbRange(lines, i, range_text) ==
  IF i + 1 <= Len(lines)
    THEN LET next_line == Strip(lines[i + 1])
         IN  IF StartsWith(next_line, ComponentMarker)
                \/ (AnyDigit(next_line) /\ StrLower(next_line) # UnitM2)
               THEN [i |-> i, range_text |-> range_text]
               ELSE AbsorbRange(lines, i + 1,
                      IF ~StartsWith(next_line, RangeMarker)
                        THEN range_text \o <<" ">> \o next_line
                        ELSE range_text)
    ELSE [i |-> i, range_text |-> range_text]

\* CASE 4 of the loop body.
RangeCase(s, line) ==
  LET a == AbsorbRange(s.lines, s.i, Strip(RemoveAll(line, RangeMarker)))
  IN  [s EXCEPT !.current_range = a.range_text, !.i = a.i + 1]

\* CASE 5 without the test against the current range.
ValueCaseNoSkip(s, line) ==
  IF StrLower(Strip(line)) = UnitM2 \/ ~AnyDigit(line)
    THEN [s EXCEPT !.i = @ + 1]
  ELSE IF StrUpper(Strip(line)) = TokenCO2
    THEN NewComponent(s, line)
  ELSE [s EXCEPT !.current_values = Append(@, Strip(line)), !.i = @ + 1]

\* CASE 5 of the loop body.
ValueCase(s, line) ==
  IF StrLower(Strip(line)) = UnitM2 \/ ~AnyDigit(line)
    THEN [s EXCEPT !.i = @ + 1]
  ELSE IF Truthy(s.current_range) /\ Contains(s.current_range, Strip(line))
    THEN [s EXCEPT !.i = @ + 1]
  ELSE IF ~AnyDigit(line) /\ ~StartsWith(line, RangeMarker)
    THEN [s EXCEPT !.i = @ + 1]
  ELSE IF AnyDigit(line) /\ ~StartsWith(line, RangeMarker)
    THEN IF StrUpper(Strip(line)) = TokenCO2
           THEN NewComponent(s, line)
           ELSE [s EXCEPT !.current_values = Append(@, Strip(line)),
                          !.i = @ + 1]
  ELSE [s EXCEPT !.i = @ + 1]

\* One iteration of "while i < (next_section_start or len(lines))".
BodyLine(s) ==
  LET line == s.lines[s.i]
  IN  IF StartsWith(line, ComponentMarker)
        THEN [Flush(s) EXCEPT !.current_component = line, !.i = s.i + 1]
      ELSE IF DateSearch(line)
        THEN [s EXCEPT !.i = @ + 1]
      ELSE IF ~StartsWith(line, RangeMarker) /\ ~AnyDigit(line)
        THEN IF StrLower(Strip(line)) = UnitM2
               THEN [s EXCEPT !.i = @ + 1]
               ELSE NewComponent(s, line)
      ELSE IF StartsWith(line, RangeMarker)
        THEN RangeCase(s, line)
      ELSE IF AnyDigit(line)
        THEN ValueCase(s, line)
      ELSE [s EXCEPT !.i = @ + 1]

\* The index after the run of date lines that starts at k.
RECURSIVE DateRunEnd(_, _)
DateRunEnd(lines, k) ==
  IF k <= Len(lines) /\ DateSearch(lines[k]) THEN DateRunEnd(lines, k + 1) ELSE k

\* The first Component index after section_start, 0 for None.
NextSectionStart(component_indices, section_start) ==
  LET later == {k \in Range(component_indices) : k > section_start}
  IN  IF later = {} THEN 0 ELSE CHOOSE k \in later : \A m \in later : k <= m

\* The bound of the body loop.
BodyLimit(s) ==
  IF s.next_section_start # 0 THEN s.next_section_start ELSE Len(s.lines) + 1

\* pd.DataFrame(rows, columns=columns) on a list of lists: a row shorter than
\* the longest is filled with None; the longest row must be as long as the
\* columns, or the constructor raises (no check when there is no row).
RECURSIVE MaxLen(_)
MaxLen(rows) ==
  IF rows = <<>> THEN 0
  ELSE LET m == MaxLen(Tail(rows))
       IN  IF Len(Head(rows)) > m THEN Len(Head(rows)) ELSE m

DataFrame(rows, columns) ==
  IF rows # <<>> /\ MaxLen(rows) # Len(columns)
    THEN [raised |-> TRUE, frame |-> NoFrame]
    ELSE [raised |-> FALSE,
          frame |-> [none |-> FALSE,
                     columns |-> columns,
                     rows |-> [r \in 1..Len(rows) |->
                                 [c \in 1..Len(columns) |->
                                    IF c <= Len(rows[r]) THEN rows[r][c] ELSE None]]]]

\* The state of extract_table_data_scan after line 38 (the text split into
\* stripped, non-empty lines).  pc is the position in the function; df and
\* dates are the returned pair (df.none stands for df = None, and dates is
\* then <<>>).  blocks is a history of the blocks whose body loop has ended:
\* what the loop left in the local variables, for stating properties.
ScanStart(lines) ==
  [lines |-> lines, pc |-> "find",
   component_indices |-> <<>>, sec |-> 0,
   date_headers |-> <<>>, current_component |-> None,
   current_values |-> <<>>, current_range |-> None,
   i |-> 0, next_section_start |-> 0,
   data_rows |-> <<>>, all_data_rows |-> <<>>, all_date_headers |-> {},
   df |-> NoFrame, dates |-> <<>>, blocks |-> <<>>]

\* The state of a parser that is not running.
ScanIdle == [ScanStart(<<>>) EXCEPT !.pc = "idle"]

\* Ascending sequence of the elements of a set of integers.
RECURSIVE SortedInts(_)
SortedInts(S) ==
  IF S = {} THEN <<>>
  ELSE LET m == CHOOSE x \in S : \A y \in S : x <= y
       IN  <<m>> \o SortedInts(S \ {m})

\* Lines 47-56: the indices of the Component lines; (None, None) without one.
FindComponents(s) ==
  LET idx == SortedInts({k \in 1..Len(s.lines) : StartsWith(s.lines[k], ComponentMarker)})
  IN  IF idx = <<>>
        THEN [s EXCEPT !.pc = "done", !.df = NoFrame, !.dates = <<>>]
        ELSE [s EXCEPT !.component_indices = idx, !.sec = 1, !.pc = "section",
                       !.all_data_rows = <<>>, !.all_date_headers = {}]

\* The next iteration of "for section_start in component_indices", or the
\* code after the loop.
NextSection(s) ==
  IF s.sec < Len(s.component_indices)
    THEN [s EXCEPT !.sec = @ + 1, !.pc = "section"]
    ELSE [s EXCEPT !.pc = "frame"]

\* Lines 64-109: the date headers of the section, then the reset of the
\* per-section variables; a section without a date header is skipped.
SectionHeader(s) ==
  LET section_start == s.component_indices[s.sec]
      current_line == DateRunEnd(s.lines, section_start + 1)
      date_headers == [k \in 1..(current_line - section_start - 1) |->
                         Strip(s.lines[section_start + k])]
  IN  IF date_headers = <<>>
        THEN NextSection(s)
        ELSE [s EXCEPT
                !.date_headers = date_headers,
                !.all_date_headers = @ \cup Range(date_headers),
                !.data_rows = <<>>,
                !.current_component = None,
                !.current_values = <<>>,
                !.current_range = None,
                !.i = current_line,
                !.next_section_start =
                   NextSectionStart(s.component_indices, section_start),
                !.pc = "body"]

\* Lines 229-230: the rows of the section join the rows of the document.
EndSection(s) ==
  NextSection([s EXCEPT
    !.all_data_rows = @ \o s.data_rows,
    !.blocks = Append(@, [date_headers |-> s.date_headers,
                          current_component |-> s.current_component,
                          current_values |-> s.current_values,
                          current_range |-> s.current_range,
                          data_rows |-> s.data_rows])])

\* Lines 232-248: the date headers sorted as strings, the frame built from
\* the rows; an exception is caught and (None, None) returned.
BuildFrame(s) ==
  LET all_date_headers == SortedStrings(s.all_date_headers)
      columns == <<ColTest>> \o all_date_headers \o <<ColRef>>
      built == DataFrame(s.all_data_rows, columns)
  IN  IF built.raised
        THEN [s EXCEPT !.pc = "done", !.df = NoFrame, !.dates = <<>>]
        ELSE [s EXCEPT !.pc = "done", !.df = built.frame, !.dates = all_date_headers]

\* One step of the function from state s.
ScanStep(s) ==
  CASE s.pc = "find" -> FindComponents(s)
    [] s.pc = "section" -> SectionHeader(s)
    [] s.pc = "body" -> IF s.i < BodyLimit(s) THEN BodyLine(s) ELSE EndSection(s)
    [] s.pc = "frame" -> BuildFrame(s)
    [] OTHER -> s

\* The function run to its return.
RECURSIVE ScanFrom(_)
ScanFrom(s) ==
  IF s.pc \in {"done", "idle"} THEN s
  ELSE Call(ScanFrom, ScanStep(s))

extract_table_data_scan(lines) == Call(ScanFrom, ScanStart(lines))

(***************************************************************************)
(* Documents                                                               *)
(***************************************************************************)

\* Longest run of date headers after a Component line.
MaxDates == 2

\* Longest body of a block.
MaxBody == 3

\* The sequences over S of length at most n.
SeqsUpTo(S, n) == UNION {[1..k -> S] : k \in 0..n}

DateLines == {Jan3, Mar6}

\* The runs of date headers of a block.
HeaderRuns == SeqsUpTo(DateLines, MaxDates)

\* The lines a block's body is made of: a label, two values, a range line,
\* the token CO2, the unit m2, a date, and the separator that ends a page.
BodyLines == {LabelNa, Value21, Value31, RangeLine21,
              TokenCO2, UnitM2, Jan3, PageSeparator}

\* A block: the Component line, its date headers, its body.
Blocks ==
  {<<ComponentMarker>> \o h \o b :
     h \in HeaderRuns, b \in SeqsUpTo(BodyLines, MaxBody)}

\* Second blocks of a document of two blocks: one label and one value only.
PlainBlocks ==
  {<<ComponentMarker>> \o h \o b :
     h \in {<<Jan3>>, <<Mar6>>, <<Jan3, Mar6>>},
     b \in SeqsUpTo({LabelK, Value21}, MaxBody)}

\* First blocks of a document of two blocks: no test, a test with one value
\* at the end of the block, a test with one or two values followed by another
\* label.
LeadBlocks ==
  {<<ComponentMarker>> \o h \o b :
     h \in HeaderRuns,
     b \in {<<>>, <<LabelNa, Value21>>, <<LabelNa, Value21, LabelK>>,
            <<LabelNa, Value21, Value31, LabelK>>}}

\* "Normal Range: 21 - 31 CO2", a range line that holds the token CO2.
RangeLineCO2 == RangeMarker \o <<" ","2","1"," ","-"," ","3","1"," ">> \o TokenCO2

\* The reports of the specification's scenarios: a range split over two
\* lines, a test with its range followed by further tests, a test whose
\* range line is followed by the label and the value of the next test, and
\* a test whose range line holds the token CO2 and is followed by the line
\* CO2 and a value.
ScenarioDocs ==
  { <<ComponentMarker, Jan3, LabelNa, Value140, RangeLine21, Value31, LabelK>>,
    <<ComponentMarker, Jan3, Mar6, LabelNa, Value140, Value21, RangeLine21,
      TokenCO2, Value31, LabelK>>,
    <<ComponentMarker, Jan3, LabelNa, Value140, RangeLine21, LabelK, Value31>>,
    <<ComponentMarker, Jan3, LabelNa, Value140, RangeLineCO2, TokenCO2, Value31>> }

\* The lines of the pages of a document: nothing but a line without a
\* Component marker, one block, two blocks.
PageLines ==
  SeqsUpTo(BodyLines, 1)
    \cup Blocks
    \cup {f \o b : f \in LeadBlocks, b \in PlainBlocks}
    \cup ScenarioDocs

\* The documents given to the parser, as extract_text_from_pdf makes them:
\* the text of a file without a page has no line, and the text of any other
\* file ends with the separator of its last page.
ScanDocs == {<<>>} \cup {d \o <<PageSeparator>> : d \in PageLines}

\* The position of a column in the returned frame, 0 when absent.
ColumnIndex(columns, name) ==
  IF \E c \in 1..Len(columns) : columns[c] = name
    THEN CHOOSE c \in 1..Len(columns) : columns[c] = name
    ELSE 0

(***************************************************************************)
(* extract_table_data_other                                                *)
(***************************************************************************)

Letters == Range(UpperLetters) \cup Range(LowerLetters)

\* [A-Za-z0-9 \(\)\[\]\-\/], the characters of a test name.
TestClass == Letters \cup Digits \cup {" ", "(", ")", "[", "]", "-", "/"}

\* [><=0-9.\-–\s], the characters a range starts with.
RangeClass == Digits \cup {">", "<", "=", ".", "-", "EN_DASH", " ", "NL"}

\* [a-zA-Z/%²μ], the characters of a unit ("%" is the only one beyond
\* letters and "/" that a text of the model can hold).
UnitClass == Letters \cup {"/", "%"}

\* [><=0-9. \s], the characters a value starts with.
ValueClass == Digits \cup {">", "<", "=", ".", " ", "NL"}

\* The length of the longest run of characters of class cls at position k.
RunLength(text, k, cls) ==
  CHOOSE n \in 0..(Len(text) + 1) :
    /\ \A j \in k..(k + n - 1) : j <= Len(text) /\ text[j] \in cls
    /\ (k + n > Len(text) \/ text[k + n] \notin cls)

\* result_pattern matched at position p.  The classes that follow one
\* another are disjoint and each is followed by a character outside it, so
\* the greedy runs are the only way to match.  The result gives the groups
\* and the position after the match.
ResultMatchAt(text, p) ==
  LET t == RunLength(text, p, TestClass)
      q == p + t + 1 + Len(RangeMarker)
      w == RunLength(text, q, {" ", "NL"})
      a == RunLength(text, q, RangeClass)
      b == RunLength(text, q + a, UnitClass)
      g == IF w < a THEN q + w ELSE q + a - 1
      v == q + a + b + 1
      c == RunLength(text, v, ValueClass)
      d == RunLength(text, v + c, UnitClass)
      ok == /\ t >= 1
            /\ p + t <= Len(text) /\ text[p + t] = "NL"
            /\ OccursAt(text, RangeMarker, p + t + 1)
            /\ a >= 1 /\ b >= 1
            /\ q + a + b <= Len(text) /\ text[q + a + b] = "NL"
            /\ c >= 1 /\ d >= 1
  IN  IF ok
        THEN [matched |-> TRUE,
              Test |-> SubSeq(text, p, p + t - 1),
              Range |-> SubSeq(text, g, q + a + b - 1),
              Value |-> SubSeq(text, v, v + c + d - 1),
              end |-> v + c + d]
        ELSE [matched |-> FALSE, Test |-> Empty, Range |-> Empty,
              Value |-> Empty, end |-> p]

\* result_pattern.finditer(text) from position p: the matches from left to
\* right, none overlapping another.
RECURSIVE FindResults(_, _)
FindResults(text, p) ==
  LET starts == {k \in p..Len(text) : ResultMatchAt(text, k).matched}
  IN  IF starts = {} THEN <<>>
      ELSE LET k == CHOOSE k \in starts : \A j \in starts : k <= j
               mt == ResultMatchAt(text, k)
           IN  <<mt>> \o FindResults(text, mt.end)

\* The end of the date that starts at k (DateAt(text, k) holds).
DateEnd(text, k) ==
  LET d == SkipSpace(text, k + 3)
      comma == IF CommaYearAt(text, d + 1) THEN d + 1 ELSE d + 2
  IN  SkipSpace(text, comma + 1) + 3

\* "Unknown Date"
UnknownDate == <<"U","n","k","n","o","w","n"," ","D","a","t","e">>

\* full_date_pattern.search(text): group 1 of the first match, or "Unknown Date".
FirstDate(text) ==
  IF DateSearch(text)
    THEN LET k == CHOOSE k \in 1..Len(text) :
                    DateAt(text, k) /\ \A j \in 1..(k - 1) : ~DateAt(text, j)
         IN  SubSeq(text, k, DateEnd(text, k))
    ELSE UnknownDate

\* "Component", the name extract_table_data_other gives the test column.
ColComponent == ComponentMarker

\* The function: (None, None) without a match, else the frame of the matches
\* with the columns Component, the date, Reference Range, and the date list.
extract_table_data_other(text) ==
  LET date == FirstDate(text)
      results == FindResults(text, 1)
  IN  IF results = <<>>
        THEN [df |-> NoFrame, dates |-> <<>>]
        ELSE [df |-> [none |-> FALSE,
                      columns |-> <<ColComponent, date, ColRef>>,
                      rows |-> [r \in 1..Len(results) |->
                                  <<Strip(results[r].Test),
                                    Strip(results[r].Value),
                                    Strip(results[r].Range)>>]],
              dates |-> <<date>>]

\* The text of a file's pages: each line of the pages followed by a line feed.
RECURSIVE TextOf(_)
TextOf(lines) ==
  IF lines = <<>> THEN <<>>
  ELSE Head(lines) \o <<"NL">> \o TextOf(Tail(lines))

\* text.split('\n'): the pieces between the line feeds.
SplitNL(text) ==
  LET nl == SortedInts({k \in 1..Len(text) : text[k] = "NL"})
      n == Len(nl)
  IN  [i \in 1..(n + 1) |->
         SubSeq(text, IF i = 1 THEN 1 ELSE nl[i - 1] + 1,
                      IF i = n + 1 THEN Len(text) ELSE nl[i] - 1)]

\* Line 38: [line.strip() for line in text.split('\n') if line.strip()]
SplitLines(text) ==
  LET pieces == SplitNL(text)
  IN  [k \in 1..Len(SelectSeq(pieces, LAMBDA x : Strip(x) # Empty)) |->
         Strip(SelectSeq(pieces, LAMBDA x : Strip(x) # Empty)[k])]

(***************************************************************************)
(* Dates: dateutil's parse and strftime("%m/%d/%Y")                        *)
(***************************************************************************)

MonthOrder ==
  << <<"J","a","n">>, <<"F","e","b">>, <<"M","a","r">>, <<"A","p","r">>,
     <<"M","a","y">>, <<"J","u","n">>, <<"J","u","l">>, <<"A","u","g">>,
     <<"S","e","p">>, <<"O","c","t">>, <<"N","o","v">>, <<"D","e","c">> >>

DigitChars == <<"0","1","2","3","4","5","6","7","8","9">>

DigitValue(c) == (CHOOSE k \in 1..Len(DigitChars) : DigitChars[k] = c) - 1

\* int(s) for a string of digits.
RECURSIVE ToInt(_)
ToInt(s) ==
  IF s = <<>> THEN 0
  ELSE ToInt(SubSeq(s, 1, Len(s) - 1)) * 10 + DigitValue(s[Len(s)])

AllDigits(s) == s # <<>> /\ \A k \in 1..Len(s) : IsDigit(s[k])

IsLeap(y) == (y % 4 = 0 /\ y % 100 # 0) \/ y % 400 = 0

DaysInMonth(y, mo) ==
  IF mo = 2 THEN (IF IsLeap(y) THEN 29 ELSE 28)
  ELSE IF mo \in {4, 6, 9, 11} THEN 30 ELSE 31

\* A date that does not parse (parse raises).
NoDate == [ok |-> FALSE, y |-> 0, mo |-> 0, d |-> 0]

ValidDate(y, mo, d) ==
  IF y >= 1 /\ mo \in 1..12 /\ d >= 1 /\ d <= DaysInMonth(y, mo)
    THEN [ok |-> TRUE, y |-> y, mo |-> mo, d |-> d]
    ELSE NoDate

\* parse of "Mon D, YYYY".
ParseMonthDayYear(s) ==
  IF Len(s) >= 3 /\ DateAt(s, 1) /\ DateEnd(s, 1) = Len(s)
    THEN LET mo == CHOOSE k \in 1..12 : MonthOrder[k] = SubSeq(s, 1, 3)
             d1 == SkipSpace(s, 4)
             d2 == IF CommaYearAt(s, d1 + 1) THEN d1 ELSE d1 + 1
         IN  ValidDate(ToInt(SubSeq(s, Len(s) - 3, Len(s))), mo,
                       ToInt(SubSeq(s, d1, d2)))
    ELSE NoDate

\* The pieces of s between the slashes.
RECURSIVE SplitSlash(_, _)
SplitSlash(s, piece) ==
  IF s = <<>> THEN <<piece>>
  ELSE IF Head(s) = "/" THEN <<piece>> \o SplitSlash(Tail(s), <<>>)
  ELSE SplitSlash(Tail(s), Append(piece, Head(s)))

\* parse of "M/D/YYYY" (month first, as dateutil reads it by default).
ParseSlashDate(s) ==
  LET f == SplitSlash(s, <<>>)
  IN  IF Len(f) = 3 /\ \A k \in 1..3 : AllDigits(f[k])
         /\ Len(f[1]) <= 2 /\ Len(f[2]) <= 2 /\ Len(f[3]) = 4
        THEN ValidDate(ToInt(f[3]), ToInt(f[1]), ToInt(f[2]))
        ELSE NoDate

\* dateutil.parser.parse on the date texts the programs give it: a month
\* name date or a slash date; any other text of the model raises.
Parse(s) ==
  LET t == Strip(s)
  IN  IF ParseMonthDayYear(t).ok THEN ParseMonthDayYear(t) ELSE ParseSlashDate(t)

\* datetime comparison.
DateLess(a, b) ==
  \/ a.y < b.y
  \/ a.y = b.y /\ a.mo < b.mo
  \/ a.y = b.y /\ a.mo = b.mo /\ a.d < b.d

\* The decimal digits of n, at least width of them.
RECURSIVE Decimal(_, _)
Decimal(n, width) ==
  IF n < 10 /\ width <= 1 THEN <<DigitChars[n + 1]>>
  ELSE Decimal(n \div 10, width - 1) \o <<DigitChars[(n % 10) + 1]>>

\* dt.strftime("%m/%d/%Y")
Strftime(dt) ==
  Decimal(dt.mo, 2) \o <<"/">> \o Decimal(dt.d, 2) \o <<"/">> \o Decimal(dt.y, 4)

\* reformat_date: the date as mm/dd/yyyy, or the text itself when parse raises.
reformat_date(date_str) ==
  IF Parse(date_str).ok THEN Strftime(Parse(date_str)) ELSE date_str

(***************************************************************************)
(* main of initial_pdf_processing.py                                       *)
(***************************************************************************)

\* A Python dict as the sequence of its items [k, v] in insertion order.
DictHas(dict, k) == \E n \in 1..Len(dict) : dict[n].k = k

DictGet(dict, k, default) ==
  IF DictHas(dict, k)
    THEN dict[CHOOSE n \in 1..Len(dict) : dict[n].k = k].v
    ELSE default

\* dict[k] = v
DictSet(dict, k, v) ==
  IF DictHas(dict, k)
    THEN [n \in 1..Len(dict) |-> IF dict[n].k = k THEN [k |-> k, v |-> v] ELSE dict[n]]
    ELSE Append(dict, [k |-> k, v |-> v])

DictKeys(dict) == [n \in 1..Len(dict) |-> dict[n].k]

\* row.get(name, ""): the cell of the row under the column, "" without it.
RowGet(df, row, name) ==
  IF ColumnIndex(df.columns, name) = 0 THEN Empty
  ELSE row[ColumnIndex(df.columns, name)]

\* process_pdf_file: the text of the file is read (an unreadable file
\* raises), then parsed by the strategy the file name selects.
process_pdf_file(file) ==
  IF ~file.readable
    THEN [raised |-> TRUE, df |-> NoFrame, dates |-> <<>>]
  ELSE IF file.scan
    THEN Call(LAMBDA r : [raised |-> FALSE, df |-> r.df, dates |-> r.dates],
              Call(extract_table_data_scan, SplitLines(file.text)))
  ELSE Call(LAMBDA r : [raised |-> FALSE, df |-> r.df, dates |-> r.dates],
            Call(extract_table_data_other, file.text))

\* The state of main after the arguments are parsed.  outcome is how the run
\* ended: "no_files" and "no_data" are the two reported returns, "written"
\* the return after to_excel, "raised" an exception that leaves main.  log
\* is a history of what the loop did with each file.
MainStart(files) ==
  [files |-> files, pc |-> "list", idx |-> 1, all_data |-> <<>>,
   combined_data |-> <<>>, reference_ranges |-> <<>>,
   final_df |-> NoFrame, outcome |-> "running", log |-> <<>>]

RunIdle == [MainStart(<<>>) EXCEPT !.pc = "idle"]

\* Lines 303-308.
ListFiles(m) ==
  IF m.files = <<>>
    THEN [m EXCEPT !.pc = "done", !.outcome = "no_files"]
    ELSE [m EXCEPT !.pc = "loop"]

\* The loop without the except clause of lines 319-320: an exception of
\* process_pdf_file leaves main.
ProcessFileUncaught(m) ==
  Call(LAMBDA r :
         IF r.raised
           THEN [m EXCEPT !.pc = "done", !.outcome = "raised"]
         ELSE IF ~r.df.none /\ r.dates # <<>>
           THEN [m EXCEPT !.idx = @ + 1,
                          !.all_data = Append(@, [df |-> r.df, dates |-> r.dates]),
                          !.log = Append(@, "kept")]
         ELSE [m EXCEPT !.idx = @ + 1, !.log = Append(@, "skipped")],
       Call(process_pdf_file, m.files[m.idx]))

\* Lines 311-320: one iteration of the loop over the files.
ProcessFile(m) ==
  Call(LAMBDA r :
         IF r.raised
           THEN [m EXCEPT !.idx = @ + 1, !.log = Append(@, "caught")]
         ELSE IF ~r.df.none /\ r.dates # <<>>
           THEN [m EXCEPT !.idx = @ + 1,
                          !.all_data = Append(@, [df |-> r.df, dates |-> r.dates]),
                          !.log = Append(@, "kept")]
         ELSE [m EXCEPT !.idx = @ + 1, !.log = Append(@, "skipped")],
       Call(process_pdf_file, m.files[m.idx]))

\* Lines 322-324.
CheckData(m) ==
  IF m.all_data = <<>>
    THEN [m EXCEPT !.pc = "done", !.outcome = "no_data"]
    ELSE [m EXCEPT !.pc = "combine"]

\* Lines 333-335 for one row: the dates of the document in turn.
RECURSIVE CombineDates(_, _, _, _, _)
CombineDates(combined, df, row, test, dates) ==
  IF dates = <<>> THEN combined
  ELSE LET cell == RowGet(df, row, Head(dates))
           next == IF cell # None
                     THEN DictSet(combined, test,
                            DictSet(DictGet(combined, test, <<>>), Head(dates), cell))
                     ELSE combined
       IN  Call(LAMBDA c : CombineDates(c, df, row, test, Tail(dates)), next)

\* Lines 331-337 for the rows of one frame from row r on; row['Test'] raises
\* KeyError when the frame has no Test column.
RECURSIVE CombineRows(_, _, _, _)
CombineRows(acc, df, dates, r) ==
  IF acc.raised \/ r > Len(df.rows) THEN acc
  ELSE IF ColumnIndex(df.columns, ColTest) = 0
    THEN [acc EXCEPT !.raised = TRUE]
  ELSE LET row == df.rows[r]
           test == row[ColumnIndex(df.columns, ColTest)]
           ref == RowGet(df, row, ColRef)
           next == [raised |-> FALSE,
                    combined_data |->
                       CombineDates(acc.combined_data, df, row, test, dates),
                    reference_ranges |->
                       IF ColumnIndex(df.columns, ColRef) # 0 /\ Truthy(ref)
                         THEN DictSet(acc.reference_ranges, test, ref)
                         ELSE acc.reference_ranges]
       IN  Call(LAMBDA a : CombineRows(a, df, dates, r + 1), next)

\* Lines 330-337 from the n-th collected frame on.
RECURSIVE CombineFrames(_, _, _)
CombineFrames(acc, all_data, n) ==
  IF acc.raised \/ n > Len(all_data) THEN acc
  ELSE Call(LAMBDA a : CombineFrames(a, all_data, n + 1),
            CombineRows(acc, all_data[n].df, all_data[n].dates, 1))

\* Lines 326-337.
Combine(m) ==
  LET c == CombineFrames([raised |-> FALSE, combined_data |-> <<>>,
                          reference_ranges |-> <<>>], m.all_data, 1)
  IN  IF c.raised
        THEN [m EXCEPT !.pc = "done", !.outcome = "raised"]
        ELSE [m EXCEPT !.pc = "build", !.combined_data = c.combined_data,
                       !.reference_ranges = c.reference_ranges]

\* Line 343: the key a date is sorted by.
SortKey(d) == IF d # UnknownDate THEN Parse(d) ELSE Parse(<<"1","/","1","/","1","9","0","0">>)

\* sorted(list(all_dates)): the dates ordered as texts.
TextDateOrders(all_dates) == {SortedStrings(all_dates)}

\* The orders sorted(list(all_dates), key=...) can give: every date once,
\* the keys not decreasing (the order of dates with equal keys is the order
\* the set happens to list them in).
SortedDateOrders(all_dates) ==
  {o \in [1..Cardinality(all_dates) -> all_dates] :
     /\ \A a, b \in DOMAIN o : a # b => o[a] # o[b]
     /\ \A a, b \in DOMAIN o : a < b => ~DateLess(SortKey(o[b]), SortKey(o[a]))}

\* final_df[ordered_columns]: for each name the columns with that label;
\* raised when a name labels no column.
SelectColumns(df, names) ==
  LET picks == [n \in 1..Len(names) |->
                  SelectSeq([c \in 1..Len(df.columns) |-> c],
                            LAMBDA c : df.columns[c] = names[n])]
      RECURSIVE Flat(_)
      Flat(q) == IF q = <<>> THEN <<>> ELSE Head(q) \o Flat(Tail(q))
      cols == Flat(picks)
  IN  IF \E n \in 1..Len(names) : picks[n] = <<>>
        THEN [raised |-> TRUE, frame |-> NoFrame]
        ELSE [raised |-> FALSE,
              frame |-> [none |-> FALSE,
                         columns |-> [c \in 1..Len(cols) |-> df.columns[cols[c]]],
                         rows |-> [r \in 1..Len(df.rows) |->
                                     [c \in 1..Len(cols) |-> df.rows[r][cols[c]]]]]]

\* Lines 339-369 with the dates in the order all_dates: the rows of the
\* final frame, the date columns renamed to mm/dd/yyyy, the columns ordered.
\* parse raises on a date it cannot read, and the selection of the columns
\* raises when the frame has no row (and so no column).
Build(m, all_dates) ==
  LET tests == DictKeys(m.combined_data)
      rows == [t \in 1..Len(tests) |->
                 <<tests[t]>>
                   \o [d \in 1..Len(all_dates) |->
                         DictGet(DictGet(m.combined_data, tests[t], <<>>),
                                 all_dates[d], Empty)]
                   \o <<DictGet(m.reference_ranges, tests[t], Empty)>>]
      date_cols_formatted == [d \in 1..Len(all_dates) |-> reformat_date(all_dates[d])]
      final_df == [none |-> FALSE,
                   columns |-> IF rows = <<>> THEN <<>>
                               ELSE <<ColTest>> \o date_cols_formatted \o <<ColRef>>,
                   rows |-> rows]
      ordered == SelectColumns(final_df, <<ColTest>> \o date_cols_formatted \o <<ColRef>>)
  IN  IF ordered.raised
        THEN [m EXCEPT !.pc = "done", !.outcome = "raised"]
        ELSE [m EXCEPT !.pc = "write", !.final_df = ordered.frame]

\* The dates of the combined data.
CombinedDates(m) ==
  UNION {Range(DictKeys(m.combined_data[t].v)) : t \in 1..Len(m.combined_data)}

\* Lines 371-374.
WriteOutput(m) == [m EXCEPT !.pc = "done", !.outcome = "written"]
(***************************************************************************)
(* The reconciliation script labcorp_pdf_processing.py                     *)
(***************************************************************************)

\* \w of the regular expressions, over the characters of the model.
WordChars == Letters \cup Digits \cup {"_"}

\* Lines 52-53: re.sub(r'[\s\W]+', '', test.strip().lower())
normalize_test_name(test) ==
  SelectSeq(StrLower(Strip(test)), LAMBDA c : c \in WordChars)

\* Lines 58-65.
canonical_map ==
  << [k |-> <<"t","e","s","t","o","s","t","e","r","o","n","e","t","o","t","a","l">>,
      v |-> <<"t","e","s","t","o","s","t","e","r","o","n","e",",","t","o","t","a","l",
              ",","l","c","/","m","s">>],
     [k |-> <<"t","e","s","t","o","s","t","e","r","o","n","e",",","t","o","t","a","l",
              ",","l","c","/","m","s">>,
      v |-> <<"t","e","s","t","o","s","t","e","r","o","n","e",",","t","o","t","a","l",
              ",","l","c","/","m","s">>],
     [k |-> <<"t","e","s","t","o","s","t","e","r","o","n","e",",","t","o","t","a","l",
              ",","l","c","/","m","s","-","l","c">>,
      v |-> <<"t","e","s","t","o","s","t","e","r","o","n","e",",","t","o","t","a","l",
              ",","l","c","/","m","s">>],
     [k |-> <<"f","r","e","e","t","e","s","t","o","s","t","e","r","o","n","e">>,
      v |-> <<"f","r","e","e"," ","t","e","s","t","o","s","t","e","r","o","n","e"," ",
              "(","d","i","r","e","c","t",")">>],
     [k |-> <<"f","r","e","e","t","e","s","t","o","s","t","e","r","o","n","e",
              "(","d","i","r","e","c","t",")">>,
      v |-> <<"f","r","e","e"," ","t","e","s","t","o","s","t","e","r","o","n","e"," ",
              "(","d","i","r","e","c","t",")">>] >>

\* Lines 67-68: canonical_map.get(test_norm, test_norm)
get_canonical(test_norm) == DictGet(canonical_map, test_norm, test_norm)

\* re.sub(r'\s+', ' ', s): every run of white space becomes one space.
CollapseSpace(s) ==
  LET keep == SelectSeq([k \in 1..Len(s) |-> k],
                        LAMBDA k : ~IsSpace(s[k]) \/ k = 1 \/ ~IsSpace(s[k - 1]))
  IN  [j \in 1..Len(keep) |-> IF IsSpace(s[keep[j]]) THEN " " ELSE s[keep[j]]]

\* Lines 73-75: re.sub(r'\s+', ' ', ref.strip().replace('–', '-').lower())
normalize_ref(ref) ==
  LET stripped == Strip(ref)
      dashed == [k \in 1..Len(stripped) |->
                   IF stripped[k] = "EN_DASH" THEN "-" ELSE stripped[k]]
  IN  CollapseSpace(StrLower(dashed))

\* The cell pd.concat (line 13) gives a row under a date column that the
\* row's worksheet does not have: NaN, which is no string.
NaN == <<"NAN">>

\* The last of the longest names.
LongestLast(names) ==
  names[CHOOSE k \in 1..Len(names) :
          /\ \A j \in 1..Len(names) : Len(names[j]) <= Len(names[k])
          /\ \A j \in (k + 1)..Len(names) : Len(names[j]) < Len(names[k])]

\* max(names, key=len): the first of the longest names.
LongestFirst(names) ==
  names[CHOOSE k \in 1..Len(names) :
          /\ \A j \in 1..Len(names) : Len(names[j]) <= Len(names[k])
          /\ \A j \in 1..(k - 1) : Len(names[j]) < Len(names[k])]

\* Lines 80-91 on the rows grp of one group: for each date column the first
\* cell that is not "", the longest test name, the first reference range.
merge_group(grp) ==
  [Test |-> LongestFirst([k \in 1..Len(grp) |-> grp[k].Test]),
   cells |-> [c \in 1..Len(grp[1].cells) |->
                LET vals == SelectSeq([k \in 1..Len(grp) |-> grp[k].cells[c]],
                                      LAMBDA v : v # Empty)
                IN  IF vals # <<>> THEN vals[1] ELSE Empty],
   Ref |-> grp[1].Ref]

\* The columns lines 55, 70 and 77 add to a row.
RowKeys(row) ==
  LET test_norm == normalize_test_name(row.Test)
  IN  [normalized_test |-> test_norm,
       canonical_test |-> get_canonical(test_norm),
       normalized_ref |-> normalize_ref(row.Ref)]

\* Grouping by "Canonical Test" alone.
GroupKeyTestOnly(keys) == <<keys.canonical_test, Empty>>

\* Line 93: the columns the rows are grouped by.
GroupKey(keys) == <<keys.canonical_test, keys.normalized_ref>>

\* Python's a < b on pairs of strings.
KeyLess(a, b) == StrLess(a[1], b[1]) \/ (a[1] = b[1] /\ StrLess(a[2], b[2]))

\* The group keys in the order groupby lists them (sorted).
RECURSIVE SortedKeys(_)
SortedKeys(S) ==
  IF S = {} THEN <<>>
  ELSE LET m == CHOOSE x \in S : \A y \in S \ {x} : KeyLess(x, y)
       IN  <<m>> \o SortedKeys(S \ {m})

\* [0-9.], the characters of a number in is_out_of_range.
NumberChars == Digits \cup {"."}

\* re.findall(r"[0-9.]+", s): the runs of number characters, left to right.
RECURSIVE FindNumbers(_, _)
FindNumbers(s, p) ==
  LET starts == {k \in p..Len(s) : s[k] \in NumberChars}
  IN  IF starts = {} THEN <<>>
      ELSE LET k == CHOOSE k \in starts : \A j \in starts : k <= j
               n == RunLength(s, k, NumberChars)
           IN  <<SubSeq(s, k, k + n - 1)>> \o FindNumbers(s, k + n)

\* 10 ** n
RECURSIVE PowerOfTen(_)
PowerOfTen(n) == IF n = 0 THEN 1 ELSE 10 * PowerOfTen(n - 1)

\* float(t) for a string t of digits and points: a ValueError unless t has
\* a digit and at most one point; else the number num / den.
Float(t) ==
  LET points == {k \in 1..Len(t) : t[k] = "."}
      digits == SelectSeq(t, IsDigit)
      decimals == IF points = {} THEN 0
                  ELSE Len(t) - (CHOOSE k \in points : TRUE)
  IN  IF Cardinality(points) > 1 \/ digits = <<>>
        THEN [error |-> TRUE, num |-> 0, den |-> 1]
        ELSE [error |-> FALSE, num |-> ToInt(digits), den |-> PowerOfTen(decimals)]

\* float(re.findall(r"[0-9.]+", s)[0]): an IndexError without a number in
\* s, a ValueError when the first run is no number.
FirstNumber(s) ==
  LET found == FindNumbers(s, 1)
  IN  IF found = <<>> THEN [error |-> TRUE, num |-> 0, den |-> 1]
      ELSE Float(found[1])

\* a <= b on floats
NumLessOrEqual(a, b) == a.num * b.den <= b.num * a.den

\* a > b on floats
NumGreater(a, b) == a.num * b.den > b.num * a.den

\* a < b on floats
NumLess(a, b) == a.num * b.den < b.num * a.den

\* re.split(r'[-]', ref): the pieces between the hyphens.
SplitHyphen(ref) ==
  LET at == SortedInts({k \in 1..Len(ref) : ref[k] = "-"})
      n == Len(at)
  IN  [i \in 1..(n + 1) |->
         SubSeq(ref, IF i = 1 THEN 1 ELSE at[i - 1] + 1,
                     IF i = n + 1 THEN Len(ref) ELSE at[i] - 1)]

\* Lines 112-132, the body of the try: whether an exception is raised, and
\* the value returned otherwise.
RangeCheck(ref, value) ==
  LET val == FirstNumber(value)
      Returns(b) == [error |-> FALSE, flagged |-> b]
      Raised == [error |-> TRUE, flagged |-> FALSE]
      OneBound(Out(_)) ==
        LET bound == FirstNumber(ref)
        IN  IF bound.error THEN Raised ELSE Returns(Out(bound))
  IN  IF ~Truthy(ref) \/ ~Truthy(value) \/ ~AnyDigit(value) THEN Returns(FALSE)
      ELSE IF val.error THEN Raised
      ELSE IF Contains(ref, <<"-">>)
        THEN LET parts == SplitHyphen(ref)
                 low == FirstNumber(parts[1])
                 high == FirstNumber(parts[2])
             IN  IF low.error \/ high.error THEN Raised
                 ELSE Returns(NumLess(val, low) \/ NumLess(high, val))
      ELSE IF Contains(ref, <<"<", "=">>)
        THEN OneBound(LAMBDA high : NumLess(high, val))
      ELSE IF Contains(ref, <<">", "=">>)
        THEN OneBound(LAMBDA low : NumLess(val, low))
      ELSE IF Contains(ref, <<"<">>)
        THEN OneBound(LAMBDA high : ~NumLess(val, high))
      ELSE IF Contains(ref, <<">">>)
        THEN OneBound(LAMBDA low : ~NumLess(low, val))
      ELSE Returns(FALSE)

\* The function without its except clause: the exception leaves it.
is_out_of_range_uncaught(ref, value) ==
  [raised |-> RangeCheck(ref, value).error, flagged |-> RangeCheck(ref, value).flagged]

\* Lines 111-135: an exception raised in the body is caught and False is
\* returned (lines 133-134).
is_out_of_range(ref, value) ==
  [raised |-> FALSE, flagged |-> RangeCheck(ref, value).flagged]

\* "01/03/2025" and "03/06/2025", two date columns after step 2.
SortedDateCols ==
  << <<"0","1","/","0","3","/","2","0","2","5">>,
     <<"0","3","/","0","6","/","2","0","2","5">> >>

\* Lines 28-48: the date columns are renamed by reformat_date, sorted by
\* date_sort_key (the date parse reads, datetime.max when it raises; sorted
\* keeps the order of equal keys) and the frame is indexed by the sorted
\* names, each name taking every column of that name.
OrderColumns(r) ==
  LET n == Len(r.date_cols)
      renamed == [c \in 1..n |-> reformat_date(r.date_cols[c])]
      key(c) == Parse(renamed[c])
      less(a, b) == key(a).ok /\ (~key(b).ok \/ DateLess(key(a), key(b)))
      before(a, b) == less(a, b) \/ (~less(b, a) /\ a < b)
      place(c) == 1 + Cardinality({j \in 1..n : j # c /\ before(j, c)})
      all_date_cols_sorted == [p \in 1..n |-> renamed[CHOOSE c \in 1..n : place(c) = p]]
      picks == [p \in 1..n |->
                  SelectSeq([c \in 1..n |-> c],
                            LAMBDA c : renamed[c] = all_date_cols_sorted[p])]
      RECURSIVE Flat(_)
      Flat(q) == IF q = <<>> THEN <<>> ELSE Head(q) \o Flat(Tail(q))
      cols == Flat(picks)
  IN  [r EXCEPT !.pc = "normalize",
                !.date_cols = [c \in 1..Len(cols) |-> renamed[cols[c]]],
                !.rows = [k \in 1..Len(r.rows) |->
                            [r.rows[k] EXCEPT
                               !.cells = [c \in 1..Len(cols) |-> r.rows[k].cells[cols[c]]]]]]

\* The state of the script from step 3 on: the rows of combined_raw_df (the
\* cells of a row are those of the sorted date columns), the added columns,
\* the merged rows, for each date cell of a merged row whether it is filled
\* yellow, and whether an exception has left the script.  date_cols are the
\* names of the date columns, in the order of the cells of a row.  previous
\* holds the merged table of an earlier run of steps 3 and 4 on the same
\* frame when there was one.
ReconStart(rows) ==
  [pc |-> "normalize", date_cols |-> SortedDateCols, rows |-> rows, keys |-> <<>>,
   deduped_df |-> <<>>, fills |-> <<>>, raised |-> FALSE, previous |-> <<>>]

\* The state of the script at step 2, after pd.concat: the date columns
\* have the names of the worksheets.
ReconStartRaw(date_cols, rows) ==
  [ReconStart(rows) EXCEPT !.pc = "dates", !.date_cols = date_cols]

ReconIdle == [ReconStart(<<>>) EXCEPT !.pc = "idle"]

\* Lines 55, 70, 77.
Normalize(r) ==
  [r EXCEPT !.pc = "group",
            !.keys = [k \in 1..Len(r.rows) |-> RowKeys(r.rows[k])]]

\* Line 93: groupby(...).apply(merge_group).reset_index(drop=True); the rows
\* of a group are in the order of the frame.  With two date columns of one
\* name grp[col] is a frame, and grp[col].tolist() (line 84) raises.
GroupRows(r) ==
  LET group_keys == SortedKeys({GroupKey(r.keys[k]) : k \in 1..Len(r.keys)})
      members(g) == SelectSeq([k \in 1..Len(r.rows) |-> k],
                              LAMBDA k : GroupKey(r.keys[k]) = g)
  IN  IF \E a, b \in 1..Len(r.date_cols) : a # b /\ r.date_cols[a] = r.date_cols[b]
        THEN [r EXCEPT !.pc = "done", !.raised = TRUE]
      ELSE
      [r EXCEPT !.pc = "sort",
                !.deduped_df =
                   [n \in 1..Len(group_keys) |->
                      merge_group([j \in 1..Len(members(group_keys[n])) |->
                                     r.rows[members(group_keys[n])[j]]])]]

\* Line 96: sort_values(by="Test", key=lower) of a frame of fewer than 17
\* rows, where the sort is an insertion sort: rows with equal keys keep
\* their order.
SortRows(r) ==
  LET n == Len(r.deduped_df)
      key(k) == StrLower(r.deduped_df[k].Test)
      before(a, b) == StrLess(key(a), key(b)) \/ (key(a) = key(b) /\ a < b)
      place(k) == 1 + Cardinality({j \in 1..n : before(j, k)})
  IN  [r EXCEPT !.pc = "highlight",
                !.deduped_df = [p \in 1..n |->
                                  r.deduped_df[CHOOSE k \in 1..n : place(k) = p]]]

\* Steps 3 and 4 run again on the rows of the frame in reverse order.
RerunReversed(r) ==
  [r EXCEPT !.pc = "normalize", !.previous = <<r.deduped_df>>,
            !.rows = [k \in 1..Len(r.rows) |-> r.rows[Len(r.rows) + 1 - k]]]

\* Lines 50-96 run again on combined_raw_df as the first run left it: the
\* rows are the same and in the same order, the columns "Normalized Test",
\* "Canonical Test", "Normalized Ref" and deduped_df are there and are
\* assigned anew.
Rerun(r) == [r EXCEPT !.pc = "normalize", !.previous = <<r.deduped_df>>]

\* isinstance(v, str) for a cell of the sheet.
IsStr(v) == v # NaN /\ v # None

\* Lines 150-156: a date cell is filled when it is a string that
\* is_out_of_range flags against the lowercased reference range of its row
\* ("" when that is no string); an exception of is_out_of_range would leave
\* the script.
Highlight(r) ==
  LET ref_val(k) == r.deduped_df[k].Ref
      check(k, c) == is_out_of_range(IF IsStr(ref_val(k)) THEN StrLower(ref_val(k))
                                                         ELSE Empty,
                                     r.deduped_df[k].cells[c])
      cell(k, c) == IF IsStr(r.deduped_df[k].cells[c])
                      THEN check(k, c)
                      ELSE [raised |-> FALSE, flagged |-> FALSE]
      fills == [k \in 1..Len(r.deduped_df) |->
                  [c \in 1..Len(r.deduped_df[k].cells) |-> cell(k, c)]]
  IN  IF \E k \in 1..Len(fills) : \E c \in 1..Len(fills[k]) : fills[k][c].raised
        THEN [r EXCEPT !.pc = "done", !.raised = TRUE]
        ELSE [r EXCEPT !.pc = "done",
                       !.fills = [k \in 1..Len(fills) |->
                                    [c \in 1..Len(fills[k]) |-> fills[k][c].flagged]]]
(***************************************************************************)
(* Specification of extract_table_data_scan on one document                *)
(***************************************************************************)

Init ==
  /\ scan \in {ScanStart(d) : d \in ScanDocs}
  /\ run = RunIdle
  /\ recon = ReconIdle

ScanFind ==
  /\ scan.pc = "find"
  /\ scan' = FindComponents(scan)
  /\ UNCHANGED <<run, recon>>

ScanSection ==
  /\ scan.pc = "section"
  /\ scan' = SectionHeader(scan)
  /\ UNCHANGED <<run, recon>>

ScanBodyLine ==
  /\ scan.pc = "body"
  /\ scan.i < BodyLimit(scan)
  /\ scan' = BodyLine(scan)
  /\ UNCHANGED <<run, recon>>

ScanEndSection ==
  /\ scan.pc = "body"
  /\ scan.i >= BodyLimit(scan)
  /\ scan' = EndSection(scan)
  /\ UNCHANGED <<run, recon>>

ScanBuildFrame ==
  /\ scan.pc = "frame"
  /\ scan' = BuildFrame(scan)
  /\ UNCHANGED <<run, recon>>

Next ==
  \/ ScanFind
  \/ ScanSection
  \/ ScanBodyLine
  \/ ScanEndSection
  \/ ScanBuildFrame

Spec == Init /\ [][Next]_vars

(***************************************************************************)
(* Specification of main on a directory of files                           *)
(***************************************************************************)

\* Most files in the directory.
MaxFiles == 3

\* A file: whether its name starts with "scan", whether its text can be
\* read, and the text extract_text_from_pdf returns for it.
PdfFile(scan_name, readable, lines) ==
  [scan |-> scan_name, readable |-> readable, text |-> TextOf(lines)]

\* "Normal Range: 21 - 31 mmol/L"
RangeLine21to31 == RangeMarker \o <<" ">> \o RangeText21to31

\* "25 mmol/L"
Value25 == <<"2","5"," ","m","m","o","l","/","L">>

\* "Mar 06, 2025", the date of Mar6 written with two digits.
Mar06 == <<"M","a","r"," ","0","6",","," ","2","0","2","5">>

\* "Feb 1, 2025", which sorts before "Jan 3, 2025" as a text and after it
\* as a date.
Feb1 == <<"F","e","b"," ","1",","," ","2","0","2","5">>

\* The files: Scan files without a Component line, without a date header,
\* with date headers and no completed test, with one test, with two tests
\* under another date, with a row longer than the columns, with one test under
\* two more dates; a file that cannot be read; other files with and without a result.
FilePool ==
  { PdfFile(TRUE, TRUE, <<LabelNa, Value21, PageSeparator>>),
    PdfFile(TRUE, TRUE, <<ComponentMarker, LabelNa, Value21, PageSeparator>>),
    PdfFile(TRUE, TRUE, <<ComponentMarker, Jan3, PageSeparator>>),
    PdfFile(TRUE, TRUE, <<ComponentMarker, Jan3, LabelNa, Value21, PageSeparator>>),
    PdfFile(TRUE, TRUE, <<ComponentMarker, Mar6, LabelNa, Value31, LabelK, Value21,
                          PageSeparator>>),
    PdfFile(TRUE, TRUE, <<ComponentMarker, Jan3, LabelNa, Value21, Value31,
                          PageSeparator>>),
    PdfFile(TRUE, TRUE, <<ComponentMarker, Mar06, Feb1, LabelNa, Value21, Value31,
                          PageSeparator>>),
    PdfFile(TRUE, FALSE, <<>>),
    PdfFile(FALSE, TRUE, <<Jan3, LabelNa, RangeLine21to31, Value25, PageSeparator>>),
    PdfFile(FALSE, TRUE, <<LabelNa, PageSeparator>>) }

MainInit ==
  /\ scan = ScanIdle
  /\ run \in {MainStart(f) : f \in SeqsUpTo(FilePool, MaxFiles)}
  /\ recon = ReconIdle

MainListFiles ==
  /\ run.pc = "list"
  /\ run' = ListFiles(run)
  /\ UNCHANGED <<scan, recon>>

MainProcessFile ==
  /\ run.pc = "loop"
  /\ run.idx <= Len(run.files)
  /\ run' = ProcessFile(run)
  /\ UNCHANGED <<scan, recon>>

MainCheckData ==
  /\ run.pc = "loop"
  /\ run.idx > Len(run.files)
  /\ run' = CheckData(run)
  /\ UNCHANGED <<scan, recon>>

MainCombine ==
  /\ run.pc = "combine"
  /\ run' = Combine(run)
  /\ UNCHANGED <<scan, recon>>

\* Lines 339-369: the sort raises when parse cannot read a date.
MainBuild ==
  /\ run.pc = "build"
  /\ IF \E d \in CombinedDates(run) : ~SortKey(d).ok
       THEN run' = [run EXCEPT !.pc = "done", !.outcome = "raised"]
       ELSE \E all_dates \in SortedDateOrders(CombinedDates(run)) :
              run' = Build(run, all_dates)
  /\ UNCHANGED <<scan, recon>>

MainWrite ==
  /\ run.pc = "write"
  /\ run' = WriteOutput(run)
  /\ UNCHANGED <<scan, recon>>

MainNext ==
  \/ MainListFiles
  \/ MainProcessFile
  \/ MainCheckData
  \/ MainCombine
  \/ MainBuild
  \/ MainWrite

SpecMain == MainInit /\ [][MainNext]_vars

(***************************************************************************)
(* Specification of the reconciliation script                              *)
(***************************************************************************)

\* Most rows of the combined frame.
MaxRows == 2

\* "Testosterone Total"
TestosteroneTotal ==
  <<"T","e","s","t","o","s","t","e","r","o","n","e"," ","T","o","t","a","l">>

\* "TESTOSTERONE, TOTAL, LC/MS"
TestosteroneLCMS ==
  <<"T","E","S","T","O","S","T","E","R","O","N","E",","," ","T","O","T","A","L",",",
    " ","L","C","/","M","S">>

\* The test names of the rows: the two names of testosterone, "Na", "NA.".
TestNames == {TestosteroneTotal, TestosteroneLCMS, LabelNa, <<"N","A",".">>}

\* The reference ranges of the rows: "21 - 31", the same with an en dash,
\* the same with two spaces, and "<5".
RefRanges ==
  { <<"2","1"," ","-"," ","3","1">>,
    <<"2","1"," ","EN_DASH"," ","3","1">>,
    <<"2","1"," "," ","-"," "," ","3","1">>,
    <<"<","5">> }

\* The cells of a row under the two date columns.
CellRows == { <<Value21, Empty>>, <<Empty, <<"3","0">> >> }

\* The cells of a row of a worksheet that has one of the two date columns.
NaNCellRows == { <<Value21, NaN>>, <<NaN, <<"3","0">> >> }

\* "NA", a name as long as "Na" and with the same normalized name.
NameNA == <<"N","A">>

\* The rows: every test name and reference range with a value under the
\* first date, "Na" and "NA." with a value under the second date, the rows
\* of "Na" and "NA." from worksheets with one date column, and a row of "NA".
RowPool ==
  {row \in [Test : TestNames, cells : CellRows, Ref : RefRanges] :
     \/ row.cells[1] # Empty
     \/ /\ row.Test \in {LabelNa, <<"N","A",".">>}
        /\ row.Ref \in {<<"2","1"," ","-"," ","3","1">>,
                        <<"2","1"," ","EN_DASH"," ","3","1">>}}
    \cup [Test : {LabelNa, <<"N","A",".">>}, cells : NaNCellRows,
          Ref : {<<"2","1"," ","-"," ","3","1">>}]
    \cup [Test : {NameNA}, cells : {<<Value21, Empty>>},
          Ref : {<<"2","1"," ","-"," ","3","1">>}]

ReconInit ==
  /\ scan = ScanIdle
  /\ run = RunIdle
  /\ recon \in {ReconStart(rows) : rows \in SeqsUpTo(RowPool, MaxRows) \ {<<>>}}

ReconNormalize ==
  /\ recon.pc = "normalize"
  /\ recon' = Normalize(recon)
  /\ UNCHANGED <<scan, run>>

ReconGroup ==
  /\ recon.pc = "group"
  /\ recon' = GroupRows(recon)
  /\ UNCHANGED <<scan, run>>

ReconSort ==
  /\ recon.pc = "sort"
  /\ recon' = SortRows(recon)
  /\ UNCHANGED <<scan, run>>

ReconHighlight ==
  /\ recon.pc = "highlight"
  /\ recon' = Highlight(recon)
  /\ UNCHANGED <<scan, run>>

ReconNext ==
  \/ ReconNormalize
  \/ ReconGroup
  \/ ReconSort
  \/ ReconHighlight

SpecRecon == ReconInit /\ [][ReconNext]_vars

(***************************************************************************)
(* Specification of the highlighting step on one merged row                *)
(***************************************************************************)

\* The numbers of the ranges and values are the multiples of 35 up to
\* 35 * MaxNumber.
MaxNumber == 3

Numbers == {35 * n : n \in 0..MaxNumber}

\* str(n)
RECURSIVE IntText(_)
IntText(n) ==
  IF n < 10 THEN <<DigitChars[n + 1]>>
  ELSE IntText(n \div 10) \o <<DigitChars[(n % 10) + 1]>>

\* " mg/dL"
UnitText == <<" ","m","g","/","d","L">>

\* The range from a to b, written "a-b mg/dL" or "a - b".
DashRange(a, b, spaced) ==
  IF spaced THEN IntText(a) \o <<" ","-"," ">> \o IntText(b)
            ELSE IntText(a) \o <<"-">> \o IntText(b) \o UnitText

\* The range from a to b written with an en dash and the unit.
EnDashRange(a, b) == IntText(a) \o <<"EN_DASH">> \o IntText(b) \o UnitText

\* "<=", ">=", "<", ">"
BoundOps == { <<"<","=">>, <<">","=">>, <<"<">>, <<">">> }

\* The range with one bound, written "<=b", ">=b", "<b" or ">b", with or
\* without a unit.
BoundRange(op, b, unit) == op \o IntText(b) \o (IF unit THEN UnitText ELSE <<>>)

\* The value v, written "v" or "v mg/dL".
ValueText(v, unit) == IntText(v) \o (IF unit THEN UnitText ELSE <<>>)

\* Ranges from which no bound can be read: "abc", "a-b", "-35", "35-",
\* "<a", "1..2-3"; and "35", a number without a comparison.
MalformedRanges ==
  { <<"a","b","c">>, <<"a","-","b">>, <<"-","3","5">>, <<"3","5","-">>,
    <<"<","a">>, <<"1",".",".","2","-","3">> }

PlainRanges == { <<"3","5">> }

\* Values without a digit, "abc" and ".", and values whose first run of
\* number characters is no number, "1.2.3" and ". 5".
DigitlessValues == { <<"a","b","c">>, <<".">> }

MalformedValues == { <<"1",".","2",".","3">>, <<"."," ","5">> }

EvalRanges ==
  {DashRange(a, b, s) : a \in Numbers, b \in Numbers, s \in BOOLEAN}
    \cup {EnDashRange(a, b) : a \in Numbers, b \in Numbers}
    \cup {BoundRange(op, b, u) : op \in BoundOps, b \in Numbers, u \in BOOLEAN}
    \cup MalformedRanges \cup PlainRanges \cup {Empty}

EvalValues ==
  {ValueText(v, u) : v \in Numbers, u \in BOOLEAN}
    \cup DigitlessValues \cup MalformedValues \cup {Empty, NaN}

\* A sorted frame of one merged row with one date column.
EvalFrame(ref, value) ==
  LET row == [Test |-> LabelNa, cells |-> <<value>>, Ref |-> ref]
  IN  [ReconStart(<<row>>) EXCEPT !.pc = "highlight",
                                  !.keys = <<RowKeys(row)>>,
                                  !.deduped_df = <<row>>]

EvalInit ==
  /\ scan = ScanIdle
  /\ run = RunIdle
  /\ recon \in {EvalFrame(ref, value) : ref \in EvalRanges, value \in EvalValues}

EvalNext == ReconHighlight

SpecEval == EvalInit /\ [][EvalNext]_vars

(***************************************************************************)
(* Specification of the script from step 2 on, on a frame of one row       *)
(***************************************************************************)

\* The names the worksheets give their date columns: dates as the files
\* write them, a date already written mm/dd/yyyy, and "Unknown Date".
RawDateCols == {Jan3, Feb1, Mar6, Mar06, SortedDateCols[2], UnknownDate}

\* The lists of up to MaxDates different names.
ColumnLists ==
  {cols \in SeqsUpTo(RawDateCols, MaxDates) :
     cols # <<>> /\ \A a, b \in 1..Len(cols) : a # b => cols[a] # cols[b]}

\* One row with a cell under each date column.
RawFrames ==
  {ReconStartRaw(cols, <<[Test |-> LabelNa, cells |-> cells,
                          Ref |-> <<"2","1"," ","-"," ","3","1">>]>>) :
     cols \in ColumnLists, cells \in SeqsUpTo({Value21, Value25}, MaxDates)}

ColumnsInit ==
  /\ scan = ScanIdle
  /\ run = RunIdle
  /\ recon \in {f \in RawFrames : Len(f.rows[1].cells) = Len(f.date_cols)}

ReconOrderColumns ==
  /\ recon.pc = "dates"
  /\ recon' = OrderColumns(recon)
  /\ UNCHANGED <<scan, run>>

ColumnsNext ==
  \/ ReconOrderColumns
  \/ ReconNormalize
  \/ ReconGroup
  \/ ReconSort
  \/ ReconHighlight

SpecColumns == ColumnsInit /\ [][ColumnsNext]_vars

(***************************************************************************)
(* Specification of steps 3 and 4 run twice on one frame                   *)
(***************************************************************************)

\* The rows of "Na", "NA" and "NA." with the reference ranges "21 - 31" and
\* "<5": rows of one group with names of one length, and groups whose
\* merged rows have one lowercased name.
RerunPool ==
  {row \in RowPool :
     /\ row.Test \in {LabelNa, NameNA, <<"N","A",".">>}
     /\ row.Ref \in {<<"2","1"," ","-"," ","3","1">>, <<"<","5">>}}

RerunInit ==
  /\ scan = ScanIdle
  /\ run = RunIdle
  /\ recon \in {ReconStart(rows) : rows \in SeqsUpTo(RerunPool, MaxRows) \ {<<>>}}

\* After the sort of a first run, steps 3 and 4 are run again.
ReconRerun ==
  /\ recon.pc = "highlight"
  /\ recon.previous = <<>>
  /\ recon' = Rerun(recon)
  /\ UNCHANGED <<scan, run>>

RerunNext ==
  \/ ReconNormalize
  \/ ReconGroup
  \/ ReconSort
  \/ ReconRerun
  \/ ReconHighlight

SpecRerun == RerunInit /\ [][RerunNext]_vars

(***************************************************************************)
(* Properties of extract_table_data_scan                                   *)
(***************************************************************************)

\* The row a flush makes of a test.
RowOf(component, values, range, date_headers) ==
  <<component>> \o Pad(values, Len(date_headers)) \o <<range>>

\* C1: for every block with at least one date header whose body has ended,
\* the last test of the block, when it has accumulated at least one value, is
\* a row of the document's rows, padded like any flushed test.
C1_LastTestEmitted ==
  \A b \in 1..Len(scan.blocks) :
    LET blk == scan.blocks[b]
    IN  (blk.current_component # None /\ Len(blk.current_values) > 0)
          => \E r \in 1..Len(scan.all_data_rows) :
               scan.all_data_rows[r] =
                 RowOf(blk.current_component, blk.current_values,
                       blk.current_range, blk.date_headers)

\* C2: every row emitted for a block holds exactly as many value cells as the
\* block has date headers: never more values than date headers, and fewer
\* values padded with empty strings to that number.
C2_ValuesWithinDateHeaders ==
  scan.pc = "body" =>
    \A r \in 1..Len(scan.data_rows) :
      Len(scan.data_rows[r]) - 2 = Len(scan.date_headers)

\* C3: once the body loop, with a current test, has passed a
\* "Normal Range: 21 -" line followed by the line "31 mmol/L" (which occurs
\* nowhere earlier in the block), the current range is "21 - 31 mmol/L" and "31 mmol/L" is no value of the
\* current test.
C3_SplitRangeMerged ==
  (/\ scan.pc = "body"
   /\ scan.current_component # None
   /\ scan.i - 2 > scan.component_indices[scan.sec]
   /\ scan.lines[scan.i - 2] = RangeLine21
   /\ scan.lines[scan.i - 1] = Value31
   /\ \A k \in (scan.component_indices[scan.sec] + 1)..(scan.i - 3) :
         scan.lines[k] # Value31)
    => /\ scan.current_range = RangeText21to31
       /\ \A k \in 1..Len(scan.current_values) : scan.current_values[k] # Value31

\* The number of rows of the blocks before block b.
RECURSIVE RowsBefore(_, _)
RowsBefore(blocks, b) ==
  IF b <= 1 THEN 0
  ELSE RowsBefore(blocks, b - 1) + Len(blocks[b - 1].data_rows)

\* A cell that holds a value: neither None nor "".
HoldsValue(cell) == cell # None /\ cell # Empty

\* C4: in the returned frame, the k-th value of a row is stored under the
\* k-th date header of the row's block, and a row holds a value under no date
\* outside its block's date headers.
C4_ValuesUnderBlockDates ==
  (scan.pc = "done" /\ ~scan.df.none) =>
    \A b \in 1..Len(scan.blocks) :
      LET blk == scan.blocks[b]
      IN  \A r \in 1..Len(blk.data_rows) :
            LET row == blk.data_rows[r]
                out == scan.df.rows[RowsBefore(scan.blocks, b) + r]
            IN  /\ \A k \in 1..(Len(row) - 2) :
                     /\ k <= Len(blk.date_headers)
                     /\ out[ColumnIndex(scan.df.columns, blk.date_headers[k])]
                          = row[k + 1]
                /\ \A c \in 2..(Len(scan.df.columns) - 1) :
                     HoldsValue(out[c])
                       => scan.df.columns[c] \in Range(blk.date_headers)

\* The total number of rows of the blocks.
TotalRows(blocks) == RowsBefore(blocks, Len(blocks) + 1)

\* C5: for a document with several blocks whose date-header lists differ, the
\* parser returns a frame with the rows of every block, and the returned date
\* list is the union of the blocks' date headers without repetition.
C5_DifferingBlocksExtracted ==
  (/\ scan.pc = "done"
   /\ \E a, b \in 1..Len(scan.blocks) :
        scan.blocks[a].date_headers # scan.blocks[b].date_headers)
    => /\ ~scan.df.none
       /\ Len(scan.df.rows) = TotalRows(scan.blocks)
       /\ Range(scan.dates) =
            UNION {Range(scan.blocks[b].date_headers) : b \in 1..Len(scan.blocks)}
       /\ Cardinality(Range(scan.dates)) = Len(scan.dates)


\* A Label line: no digit, no Section-Header, no Range-Fragment, not "m2".
IsLabel(line) ==
  /\ ~AnyDigit(line)
  /\ ~StartsWith(line, ComponentMarker)
  /\ ~StartsWith(line, RangeMarker)
  /\ StrLower(Strip(line)) # UnitM2

\* The lines of the body that an iteration of the loop passes over.
LinesPassed == scan.i..(scan'.i - 1)

\* An iteration of the body loop treats every Label line it passes over as
\* the start of a test.
LabelStartsTest ==
  (scan.pc = "body" /\ scan'.pc = "body") =>
    \A k \in LinesPassed :
      IsLabel(scan.lines[k]) =>
        /\ scan'.current_component = scan.lines[k]
        /\ scan'.current_values = <<>>
        /\ scan'.current_range = None
        /\ scan'.data_rows =
             IF scan.current_component # None /\ Len(scan.current_values) > 0
               THEN Append(scan.data_rows,
                           RowOf(scan.current_component, scan.current_values,
                                 scan.current_range, scan.date_headers))
               ELSE scan.data_rows

\* C20: every Label line in the body of a block becomes the current test
\* name; the previous test is emitted as a row iff it had accumulated at
\* least one value, and the new test starts with no values and no range.
C20_LabelStartsTest == [][LabelStartsTest]_vars

\* A Numeric-Value line: a digit, no Section-Header, no Date-Header, no
\* Range-Fragment.
IsNumericValue(line) ==
  /\ AnyDigit(line)
  /\ ~StartsWith(line, ComponentMarker)
  /\ ~DateSearch(line)
  /\ ~StartsWith(line, RangeMarker)

\* The unit fragment "m2" and the token "CO2", in any case.
IsSpecialToken(line) ==
  StrLower(Strip(line)) = UnitM2 \/ StrUpper(Strip(line)) = TokenCO2

\* The trimmed line is a substring of the current reference range.
InCurrentRange(line) ==
  /\ scan.current_range # None
  /\ \E k \in 1..(Len(scan.current_range) - Len(Strip(line)) + 1) :
       SubSeq(scan.current_range, k, k + Len(Strip(line)) - 1) = Strip(line)

\* The loop is at a line of the body of the current block.
AtBodyLine == scan.pc = "body" /\ scan.i < BodyLimit(scan)

\* The effect the iteration at a Numeric-Value line has: the line is stepped
\* over when it is in the range, and is the next value otherwise.
ValueAppendedOrSkipped ==
  scan' = IF InCurrentRange(scan.lines[scan.i])
            THEN [scan EXCEPT !.i = @ + 1]
            ELSE [scan EXCEPT !.i = @ + 1,
                              !.current_values = Append(@, Strip(scan.lines[scan.i]))]

\* C22 as stated: every Numeric-Value line is appended as the next value
\* of the current test iff its trimmed text is no substring of the current
\* range, and a line skipped leaves test, values and range unchanged.
C22_EveryNumericLine ==
  [][(AtBodyLine /\ IsNumericValue(scan.lines[scan.i])) => ValueAppendedOrSkipped]_vars

\* C22: a Numeric-Value line other than "m2" and "CO2" is appended as the
\* next value of the current test iff its trimmed text is no substring of
\* the current range; a line skipped for being contained in the range
\* leaves the current test, its values and its range unchanged.
C22_ValueAppendedUnlessInRange ==
  [][(AtBodyLine /\ IsNumericValue(scan.lines[scan.i])
        /\ ~IsSpecialToken(scan.lines[scan.i])) => ValueAppendedOrSkipped]_vars

\* The line "21" after the range "21 -" has been stepped over: the test has
\* its range and no value.
C22_Witness ==
  /\ scan.pc = "body"
  /\ scan.i > 1
  /\ scan.lines[scan.i - 1] = Value21
  /\ scan.current_component = LabelNa
  /\ scan.current_range = RangeText21
  /\ scan.current_values = <<>>

\* The iteration at the line starts a test named by the line: the test
\* before is a row when it has a value, and the new test has no value and
\* no range.
LineStartsTest ==
  /\ scan'.current_component = scan.lines[scan.i]
  /\ scan'.current_values = <<>>
  /\ scan'.current_range = None
  /\ scan'.data_rows =
       IF scan.current_component # None /\ Len(scan.current_values) > 0
         THEN Append(scan.data_rows,
                     RowOf(scan.current_component, scan.current_values,
                           scan.current_range, scan.date_headers))
         ELSE scan.data_rows

\* C23: a body line equal to "CO2" in any case is never a value of the test
\* before it: it emits that test as a row if the test has at least one
\* value, and becomes the current test name with no values and no range.
C23_TokenStartsTest ==
  [][(AtBodyLine /\ StrUpper(Strip(scan.lines[scan.i])) = TokenCO2)
       => LineStartsTest]_vars
(***************************************************************************)
(* Properties of main                                                      *)
(***************************************************************************)

\* An exception is raised while the file is processed: its text cannot be
\* read, or the Scan parser found Component lines and returned (None, None),
\* which it does only from its except clause.
Raises(file) ==
  \/ ~file.readable
  \/ /\ file.scan
     /\ LET end == extract_table_data_scan(SplitLines(file.text))
        IN  end.component_indices # <<>> /\ end.df.none

\* One step of main: from the loop with a file left, the loop goes on to
\* the next file, and a file that raises leaves the collection as it was;
\* the loop is left only when no file is left.
ExceptionCaught ==
  /\ (run.pc = "loop" /\ run.idx <= Len(run.files)) =>
        /\ run'.pc = "loop"
        /\ run'.idx = run.idx + 1
        /\ Raises(run.files[run.idx]) => run'.all_data = run.all_data
  /\ (run.pc = "loop" /\ run'.pc # "loop") => run.idx > Len(run.files)

\* C6: an exception raised while one document is processed is caught: the
\* document hands nothing to the collection, what the earlier documents
\* handed over is unchanged, and every later document is still processed.
C6_ExceptionSkipsDocument == [][ExceptionCaught]_vars

\* A run of three files, the second of which raised between two kept ones.
C6_Witness ==
  /\ run.pc = "combine"
  /\ Len(run.files) = 3
  /\ Raises(run.files[2])
  /\ run.log = <<"kept", "caught", "kept">>
  /\ Len(run.all_data) = 2

\* The file yields no row: nothing is returned for it, or a frame without rows.
YieldsNoRow(file) ==
  /\ file.readable
  /\ ~Raises(file)
  /\ LET r == process_pdf_file(file) IN r.df.none \/ r.df.rows = <<>>

\* C7: a document from which no row can be parsed does not raise and is
\* left out of the collection handed to the combining stage.
C7_EmptyDocumentExcluded ==
  run.pc # "idle" =>
    \A k \in 1..Len(run.log) :
      YieldsNoRow(run.files[k]) => run.log[k] = "skipped"

\* Some file of the run yields a row.
SomeRow == \E k \in 1..Len(run.files) :
             LET r == process_pdf_file(run.files[k])
             IN  ~r.raised /\ ~r.df.none /\ r.df.rows # <<>>

\* C8: without a file, or without a row from any document, the run reports
\* the condition and ends with no file written and no exception; in every
\* other case it ends with the file written.
C8_RunEndsReportedOrWritten ==
  run.pc = "done" =>
    IF run.files = <<>> THEN run.outcome = "no_files"
    ELSE IF ~SomeRow THEN run.outcome = "no_data"
    ELSE run.outcome = "written"

\* The run has built its final table.
TableBuilt == run.pc = "write" \/ run.outcome = "written"

\* The headers of the date columns of the final table.
DateHeaders ==
  SubSeq(run.final_df.columns, 2, Len(run.final_df.columns) - 1)

\* h is written mm/dd/yyyy.
IsMonthDayYear(h) ==
  /\ Len(h) = 10
  /\ h[3] = "/" /\ h[6] = "/"
  /\ \A k \in {1, 2, 4, 5, 7, 8, 9, 10} : IsDigit(h[k])

\* The calendar date a header mm/dd/yyyy denotes, as the number yyyymmdd.
CalendarDay(h) ==
  ToInt(SubSeq(h, 7, 10)) * 10000 + ToInt(SubSeq(h, 1, 2)) * 100
    + ToInt(SubSeq(h, 4, 5))

\* "01/03/2025" and "02/01/2025"
HeaderJan3 == <<"0","1","/","0","3","/","2","0","2","5">>

HeaderFeb1 == <<"0","2","/","0","1","/","2","0","2","5">>

C16_OneColumnPerDate ==
  TableBuilt =>
    \A i, j \in 1..Len(run.final_df.columns) :
      i # j => run.final_df.columns[i] # run.final_df.columns[j]


\* The file is a non-scan document with at least one matched result.
NonScanWithResult(file) ==
  /\ ~file.scan
  /\ file.readable
  /\ LET r == process_pdf_file(file)
     IN  ~r.raised /\ ~r.df.none /\ r.df.rows # <<>>

\* The test names of the results the non-scan strategy matches in the file.
NonScanTests(file) ==
  LET df == process_pdf_file(file).df
  IN  {df.rows[n][ColumnIndex(df.columns, ColComponent)] : n \in 1..Len(df.rows)}

\* The combining step of a run with a non-scan document that has a result
\* goes on to build the table, with the test names of the document among
\* the combined tests.
NonScanCombined ==
  run.pc = "combine" =>
    \A k \in 1..Len(run.files) :
      NonScanWithResult(run.files[k]) =>
        /\ run'.pc = "build"
        /\ \A test \in NonScanTests(run.files[k]) : DictHas(run'.combined_data, test)

\* C24: the rows of the non-scan strategy are combined like those of the
\* scan strategy: combining them raises nothing, and the tests of the
\* document are among the tests of the table.
C24_NonScanRowsCombined == [][NonScanCombined]_vars
(***************************************************************************)
(* Properties of the reconciliation script                                 *)
(***************************************************************************)

\* The canonical test key and the normalized reference range of a row.
PairOf(row) ==
  <<get_canonical(normalize_test_name(row.Test)), normalize_ref(row.Ref)>>

\* The rows are grouped and merged.
Merged == recon.pc \in {"sort", "highlight", "done"}

\* The merged rows of the pair p.
MergedRowsOf(p) == {k \in 1..Len(recon.deduped_df) : PairOf(recon.deduped_df[k]) = p}

\* C9: "Testosterone Total" and "TESTOSTERONE, TOTAL, LC/MS" get the same
\* canonical key, so two rows with these names and reference ranges that
\* normalize alike are merged into one row.
C9_TestosteroneNamesMerged ==
  Merged =>
    \A i, j \in 1..Len(recon.rows) :
      ( /\ recon.rows[i].Test = TestosteroneTotal
        /\ recon.rows[j].Test = TestosteroneLCMS
        /\ normalize_ref(recon.rows[i].Ref) = normalize_ref(recon.rows[j].Ref) ) =>
        /\ recon.keys[i].canonical_test = recon.keys[j].canonical_test
        /\ Cardinality(MergedRowsOf(PairOf(recon.rows[i]))
                         \cup MergedRowsOf(PairOf(recon.rows[j]))) = 1

\* C10: the merged table holds exactly one row for each distinct pair of
\* canonical test key and normalized reference range among the rows, and
\* no row for any other pair.
C10_OneRowPerPair ==
  Merged =>
    /\ \A i \in 1..Len(recon.rows) :
         Cardinality(MergedRowsOf(PairOf(recon.rows[i]))) = 1
    /\ \A k \in 1..Len(recon.deduped_df) :
         \E i \in 1..Len(recon.rows) :
           PairOf(recon.deduped_df[k]) = PairOf(recon.rows[i])

\* Two rows that differ in the test name and in the reference range as
\* written, and are one pair, are merged into one row.
C10_Witness ==
  /\ recon.pc = "done"
  /\ Len(recon.rows) = 2
  /\ recon.rows[1].Test # recon.rows[2].Test
  /\ recon.rows[1].Ref # recon.rows[2].Ref
  /\ PairOf(recon.rows[1]) = PairOf(recon.rows[2])
  /\ Len(recon.deduped_df) = 1

\* The rows of the frame that are in the group of the merged row k, in the
\* order of the frame.
GroupOf(k) ==
  SelectSeq(recon.rows, LAMBDA row : PairOf(row) = PairOf(recon.deduped_df[k]))

\* The values the rows of a group supply for the date column c: the cells
\* that are neither empty nor missing.
ValuesOf(grp, c) ==
  SelectSeq([j \in 1..Len(grp) |-> grp[j].cells[c]],
            LAMBDA v : v # Empty /\ v # NaN)

\* C11: where rows of one group supply values for a date, the merged row
\* holds the first of them in input order; a row with an empty cell or
\* without the date column displaces no value of another row.
C11_FirstValueWins ==
  Merged =>
    \A k \in 1..Len(recon.deduped_df) :
      \A c \in 1..Len(recon.deduped_df[k].cells) :
        ValuesOf(GroupOf(k), c) # <<>> =>
          recon.deduped_df[k].cells[c] = ValuesOf(GroupOf(k), c)[1]


\* The test names of the rows of a group, in the order of the frame.
NamesOf(grp) == [j \in 1..Len(grp) |-> grp[j].Test]

\* C18: the test name of a merged row is a longest test name of the rows of
\* its group, and the first of these in input order.
C18_LongestNameFirst ==
  Merged =>
    \A k \in 1..Len(recon.deduped_df) :
      LET names == NamesOf(GroupOf(k))
      IN  \E i \in 1..Len(names) :
            /\ recon.deduped_df[k].Test = names[i]
            /\ \A j \in 1..Len(names) : Len(names[j]) <= Len(names[i])
            /\ \A j \in 1..(i - 1) : Len(names[j]) < Len(names[i])

\* A group of two rows whose names differ and are equally long: the merged
\* row has the name of the first.
C18_Witness ==
  /\ recon.pc = "done"
  /\ ~recon.raised
  /\ Len(recon.rows) = 2
  /\ Len(recon.deduped_df) = 1
  /\ recon.rows[1].Test # recon.rows[2].Test
  /\ Len(recon.rows[1].Test) = Len(recon.rows[2].Test)
  /\ recon.deduped_df[1].Test = recon.rows[1].Test
(***************************************************************************)
(* Properties of the range evaluator                                       *)
(***************************************************************************)

\* The highlighting step has run on a frame of one row with one date cell.
Evaluated == recon.pc = "done" /\ Len(recon.deduped_df) = 1 /\ ~recon.raised

\* The reference range, the value and the fill of that row.
EvalRef == recon.deduped_df[1].Ref

EvalValue == recon.deduped_df[1].cells[1]

EvalFill == recon.fills[1][1]

\* C12: against a range with a dash, a value is flagged iff it is less than
\* the number left of the dash or greater than the number right of it;
\* both bounds are in range.
C12_DashRangeInclusive ==
  Evaluated =>
    \A a, b, v \in Numbers : \A s, u \in BOOLEAN :
      (EvalRef = DashRange(a, b, s) /\ EvalValue = ValueText(v, u)) =>
        (EvalFill <=> (v < a \/ v > b))

\* The value 70 against the range "35-70 mg/dL", not flagged.
C12_Witness ==
  /\ Evaluated
  /\ EvalRef = DashRange(35, 70, FALSE)
  /\ EvalValue = ValueText(70, TRUE)
  /\ ~EvalFill

\* C13: against a range without a dash and with the bound b, a value v is
\* flagged under "<=b" iff v > b, under ">=b" iff v < b, under "<b" iff
\* v >= b, under ">b" iff v <= b.
C13_OneBoundRanges ==
  Evaluated =>
    \A b, v \in Numbers : \A u, w \in BOOLEAN :
      EvalValue = ValueText(v, w) =>
        /\ EvalRef = BoundRange(<<"<","=">>, b, u) => (EvalFill <=> v > b)
        /\ EvalRef = BoundRange(<<">","=">>, b, u) => (EvalFill <=> v < b)
        /\ EvalRef = BoundRange(<<"<">>, b, u) => (EvalFill <=> v >= b)
        /\ EvalRef = BoundRange(<<">">>, b, u) => (EvalFill <=> v <= b)

\* The value 70 against the range "<70", flagged.
C13_Witness ==
  /\ Evaluated
  /\ EvalRef = BoundRange(<<"<">>, 70, FALSE)
  /\ EvalValue = ValueText(70, FALSE)
  /\ EvalFill

\* C14: the evaluator raises for no pair of range and value, and the cell
\* is not flagged when the range or the value is empty or absent, the value
\* has no digit, or no number can be read from the range or the value.
C14_NeverRaisesIndeterminate ==
  recon.pc = "done" =>
    /\ ~recon.raised
    /\ ( /\ Len(recon.deduped_df) = 1
         /\ \/ EvalRef = Empty
            \/ EvalValue \in {Empty, NaN}
            \/ EvalValue \in DigitlessValues \cup MalformedValues
            \/ EvalRef \in MalformedRanges ) => ~EvalFill

\* A value with a digit against a range without a number on the left of
\* its dash: the IndexError is caught, the cell is not flagged.
C14_Witness ==
  /\ Evaluated
  /\ EvalRef = <<"-","3","5">>
  /\ EvalValue = ValueText(70, FALSE)
  /\ ~EvalFill

\* Step 2 of the script has named and ordered the date columns.
ColumnsOrdered == recon.pc \in {"normalize", "group", "sort", "highlight", "done"}

\* C17: every date column header of the final table is written mm/dd/yyyy,
\* whatever date text, or none, the documents carried.
C17_HeadersFormatted ==
  ColumnsOrdered =>
    \A c \in 1..Len(recon.date_cols) : IsMonthDayYear(recon.date_cols[c])


\* Steps 3 and 4 have run a second time.
RanTwice == Len(recon.previous) = 1 /\ recon.pc \in {"highlight", "done"}

WithHyphen(ref) == [k \in 1..Len(ref) |-> IF ref[k] = "EN_DASH" THEN "-" ELSE ref[k]]

\* C21: a cell is classified against the normalized range of its row, so
\* under a range written with an en dash a value is filled exactly when it
\* is filled under the same range written with a hyphen.
C21_EnDashAsHyphen ==
  (Evaluated /\ IsStr(EvalRef) /\ IsStr(EvalValue)
     /\ \E k \in 1..Len(EvalRef) : EvalRef[k] = "EN_DASH") =>
    EvalFill = is_out_of_range(StrLower(WithHyphen(EvalRef)), EvalValue).flagged
====
